---- MODULE Spec2Model ----
(***************************************************************************)
(* QuickNotes note board: the Note entity and the NoteManager of           *)
(* js/notes.js, and the board controller of js/ui.js (drag handlers,       *)
(* sortAndRenderNotes, the quote fetch).                                   *)
(*                                                                         *)
(* JavaScript values are modelled as follows.                              *)
(*   - a string is a TLA+ string ("" is the empty, falsy string);          *)
(*   - a value that may be null is a tuple of length 0 or 1: << >> is      *)
(*     null (or undefined where the code does not tell them apart), <<v>>  *)
(*     is the value v;                                                     *)
(*   - a number that may be NaN is likewise << >> (NaN) or <<n>>;          *)
(*   - an object reference is the index of the object in heap.             *)
(***************************************************************************)
EXTENDS Integers, Sequences, FiniteSets, TLC

VARIABLES
    heap,      \* the Note objects ever constructed, by reference
    notes,     \* NoteManager.notes: the Map, as its entries in insertion order
    clock,     \* Date.now(), in milliseconds since the epoch
    op,        \* the operation that ran last and its arguments
    ret,       \* what that operation returned
    lastAdd,   \* history: per id, the note added last and not removed since
    views,     \* the note elements and the closure state of their listeners
    layout,    \* what getBoundingClientRect and offsetWidth/Height measure
    pointer,   \* "up" or "down": the mouse button
    moved,     \* history: the notes whose position a mousemove wrote last
    deleted,   \* history: the notes a completed deleteNote took out of the manager
    fetches    \* the addRandomQuote calls that are awaiting, and how many began

vars ==
    <<heap, notes, clock, op, ret, lastAdd, views, layout, pointer, moved, deleted,
      fetches>>

\* The board: the elements, the measures and the mouse.
uiVars == <<views, layout, pointer, moved, deleted>>

----------------------------------------------------------------------------
(* Bounds of the model *)

MaxNotes == 3      \* Note objects constructed in one behaviour
MaxClock == 2      \* the clock runs from 0 to MaxClock
MaxQuotes == 2     \* addRandomQuote calls begun in one behaviour

\* Math.floor(Math.random() * 1000) takes the values 0 .. 999; the model draws
\* the two ends of that range.
RandChoices == {0, 999}

----------------------------------------------------------------------------
(* JavaScript values *)

Null == << >>
Some(v) == <<v>>

\* ToBoolean of a string-or-null value: null, undefined and "" are falsy.
Truthy(v) == v # Null /\ v[1] # ""

\* a ?? b: only null and undefined give way to b.
OrElseNullish(a, b) == IF a # Null THEN a ELSE b

\* a || b
OrElse(a, b) == IF Truthy(a) THEN a ELSE b

----------------------------------------------------------------------------
(* notes.js: Note *)

NOTE_COLORS == <<"note-yellow", "note-blue", "note-green", "note-pink">>

\* generateId(): 'note_' + Date.now() + '_' + Math.floor(Math.random() * 1000)
generateId(now, r) == "note_" \o ToString(now) \o "_" \o ToString(r)

\* getRandomColor(): NOTE_COLORS[Math.floor(Math.random() * NOTE_COLORS.length)]
getRandomColor(k) == NOTE_COLORS[k + 1]

\* new Date(ms).toISOString(), for the instants the clock takes
toISOString(ms) ==
    "1970-01-01T00:00:00."
        \o (IF ms < 10 THEN "00" ELSE IF ms < 100 THEN "0" ELSE "")
        \o ToString(ms) \o "Z"

\* The option names the constructor destructures.
OptionNames == {"id", "content", "x", "y", "color", "timestamp", "image"}

\* An options object: has is the set of properties that are present (not
\* undefined); the other fields hold the value of each present property.
\* id, color, timestamp and image may be null or a string, content is a
\* string, x and y are numbers.
Opt(o, f, default) == IF f \in o.has THEN o[f] ELSE default

\* constructor({ id = null, content = '', x = 0, y = 0, color = null,
\*               timestamp = null, image = null })
\* now, r and k are the clock and the two random draws it may consume.
NoteConstructor(o, now, r, k) ==
    [ id        |-> OrElse(Opt(o, "id", Null), Some(generateId(now, r)))[1],
      content   |-> Opt(o, "content", ""),
      x         |-> Opt(o, "x", 0),
      y         |-> Opt(o, "y", 0),
      color     |-> OrElse(Opt(o, "color", Null), Some(getRandomColor(k)))[1],
      timestamp |-> OrElse(Opt(o, "timestamp", Null), Some(toISOString(now)))[1],
      element   |-> Null,
      image     |-> OrElse(Opt(o, "image", Null), Null) ]

\* updatePosition(x, y)
updatePosition(n, x, y) == [n EXCEPT !.x = x, !.y = y]

\* updateContent that stamps the note with the time of the edit.
updateContentStamped(n, content) ==
    [n EXCEPT !.content = content, !.timestamp = "edited"]

\* updateContent(content)
updateContent(n, content) == [n EXCEPT !.content = content]

\* setImage(dataUrl); a data URL is a string
setImage(n, dataUrl) == [n EXCEPT !.image = Some(dataUrl)]

\* toObject() that leaves the image out of the snapshot.
toObjectNoImage(n) ==
    [ has       |-> OptionNames \ {"image"},
      id        |-> Some(n.id),
      content   |-> n.content,
      x         |-> n.x,
      y         |-> n.y,
      color     |-> Some(n.color),
      timestamp |-> Some(n.timestamp) ]

\* toObject(): every property is present in the result
toObject(n) ==
    [ has       |-> OptionNames,
      id        |-> Some(n.id),
      content   |-> n.content,
      x         |-> n.x,
      y         |-> n.y,
      color     |-> Some(n.color),
      timestamp |-> Some(n.timestamp),
      image     |-> n.image ]

----------------------------------------------------------------------------
(* notes.js: NoteManager.  The Map is the sequence of its entries          *)
(* [key, val] in insertion order; val is a reference into heap.            *)

MapKeys(m) == {m[i].key : i \in 1..Len(m)}

MapHas(m, k) == k \in MapKeys(m)

MapIndex(m, k) == CHOOSE i \in 1..Len(m) : m[i].key = k

\* Map.prototype.get: the value, or undefined
MapGet(m, k) == IF MapHas(m, k) THEN Some(m[MapIndex(m, k)].val) ELSE Null

\* Map.prototype.set: an existing key keeps its place and takes the new
\* value, a new key is appended
MapSet(m, k, v) ==
    IF MapHas(m, k)
    THEN [m EXCEPT ![MapIndex(m, k)].val = v]
    ELSE Append(m, [key |-> k, val |-> v])

\* Map.prototype.delete: the entries without the key
MapDelete(m, k) ==
    LET keep == {i \in 1..Len(m) : m[i].key # k}
        F[i \in 0..Len(m)] ==
            IF i = 0 THEN << >>
            ELSE IF i \in keep THEN Append(F[i - 1], m[i]) ELSE F[i - 1]
    IN  F[Len(m)]

\* getNote(id)
getNote(id) == MapGet(notes, id)

\* getAllNotes(): Array.from(this.notes.values())
getAllNotes == [i \in 1..Len(notes) |-> notes[i].val]

\* toJSON() over every note ever built, in or out of the manager.
toJSONOfAllBuilt == [r \in 1..Len(heap) |-> toObject(heap[r])]

\* toJSON()
toJSON == [i \in 1..Len(notes) |-> toObject(heap[notes[i].val])]

\* addNote as a registry that rejects a duplicate id (first write wins).
addNoteKeepFirst(m, r) ==
    IF MapHas(m, heap[r].id) THEN m ELSE Append(m, [key |-> heap[r].id, val |-> r])

\* addNote(note): this.notes.set(note.id, note)
addNote(m, r) == MapSet(m, heap[r].id, r)

\* removeNote(id): this.notes.delete(id), true exactly when the key was there
removeNoteResult(m, id) == MapHas(m, id)

\* removeNote over an array: splice(indexOf(id), 1), which drops the last
\* entry when indexOf finds nothing and answers -1.
removeNoteSplice(m, id) ==
    IF MapHas(m, id) THEN MapDelete(m, id) ELSE SubSeq(m, 1, Len(m) - 1)

removeNote(m, id) == MapDelete(m, id)

\* refs.forEach(note => noteManager.addNote(note))
RECURSIVE AddAll(_, _)
AddAll(m, refs) ==
    IF refs = << >> THEN m ELSE AddAll(addNote(m, Head(refs)), Tail(refs))

----------------------------------------------------------------------------
(* ui.js: the note elements.  Every call of note.createElement() is         *)
(* followed by setupNoteEventListeners(noteElement, note, noteManager), so  *)
(* one record stands for the element and for the closure its listeners      *)
(* share: the note, whether the element is in the document, isDragging and  *)
(* the drag offsets (undefined until the first drag), and whether the       *)
(* element carries note-fade-out with its animation running (fading).       *)
(* views lists them in the order they were set up, which is the order the   *)
(* document calls their mousemove and mouseup listeners.                    *)
(*                                                                          *)
(* press is history, not read by any handler: while the mouse button is     *)
(* held after a press on the element, the target of the press, where in     *)
(* the element it landed (grab), the note's position at the press (start)   *)
(* and the pointer of the last mousemove since (last, null when none).      *)
(*                                                                          *)
(* An element that is out of the document and whose isDragging is false     *)
(* takes no event any more and its document listeners return at their       *)
(* guard; such records are dropped and the rest renumbered.                 *)

\* The measures the handlers read: the board's rectangle in the viewport and
\* the size of a note element that is laid out (in px).  The second layout
\* has a note that has grown taller than the board (min-height: 200px, no
\* maximum; the board is the viewport's height less header and footer).
Layouts ==
    { [left |-> 10, top |-> 60, boardW |-> 800, boardH |-> 500,
       noteW |-> 200, noteH |-> 200],
      [left |-> 10, top |-> 60, boardW |-> 800, boardH |-> 500,
       noteW |-> 200, noteH |-> 600] }

NewView(r) ==
    [note |-> r, attached |-> TRUE, isDragging |-> FALSE,
     dragOffsetX |-> Null, dragOffsetY |-> Null, fading |-> FALSE,
     press |-> Null]

\* noteElement.offsetWidth / offsetHeight: an element out of the document has
\* no layout box
offsetWidth(v) == IF v.attached THEN layout.noteW ELSE 0

offsetHeight(v) == IF v.attached THEN layout.noteH ELSE 0

\* noteElement.getBoundingClientRect(), left and top: createElement and
\* updatePosition keep the element's style.left/top equal to the note's x, y
noteRect(h, v) ==
    IF v.attached
    THEN [left |-> layout.left + h[v.note].x, top |-> layout.top + h[v.note].y]
    ELSE [left |-> 0, top |-> 0]

Min(a, b) == IF a < b THEN a ELSE b

Max(a, b) == IF a > b THEN a ELSE b

\* The clamp without its upper limit.
ClampLowOnly(candidate, boardExtent, noteExtent) == Max(0, candidate)

\* Math.max(0, Math.min(candidate, boardExtent - noteExtent))
Clamp(candidate, boardExtent, noteExtent) ==
    Max(0, Min(candidate, boardExtent - noteExtent))

\* The records that still matter and their new numbers.
Live(vs) == {i \in 1..Len(vs) : vs[i].attached \/ vs[i].isDragging}

Renumber(vs, i) == Cardinality({j \in Live(vs) : j <= i})

Compact(vs) ==
    LET F[i \in 0..Len(vs)] ==
            IF i = 0 THEN << >>
            ELSE IF i \in Live(vs) THEN Append(F[i - 1], vs[i]) ELSE F[i - 1]
    IN  F[Len(vs)]

\* note.element after the renumbering; 0 is an element that was dropped
CompactHeap(h, vs) ==
    [r \in 1..Len(h) |->
        IF h[r].element = Null THEN h[r]
        ELSE IF h[r].element[1] \in Live(vs)
             THEN [h[r] EXCEPT !.element = Some(Renumber(vs, h[r].element[1]))]
             ELSE [h[r] EXCEPT !.element = Some(0)]]

\* The mousemove listener that puts the note's corner under the pointer.
DragPositionNoOffset(v, cx, cy) ==
    <<Clamp(cx - layout.left, layout.boardW, offsetWidth(v)),
      Clamp(cy - layout.top, layout.boardH, offsetHeight(v))>>

\* The mousemove listener of one element, lines 209-226: the position it
\* writes for pointer (cx, cy)
DragPosition(v, cx, cy) ==
    LET newX == cx - layout.left - v.dragOffsetX[1]
        newY == cy - layout.top - v.dragOffsetY[1]
    IN  <<Clamp(newX, layout.boardW, offsetWidth(v)),
          Clamp(newY, layout.boardH, offsetHeight(v))>>

\* The document's mousemove listeners, called in order on heap h: every
\* element that is being dragged writes its note's position.
MoveAll(h, vs, cx, cy) ==
    LET F[i \in 0..Len(vs)] ==
            IF i = 0 THEN h
            ELSE IF vs[i].isDragging
                 THEN LET p == DragPosition(vs[i], cx, cy)
                      IN  [F[i - 1] EXCEPT ![vs[i].note] = updatePosition(@, p[1], p[2])]
                 ELSE F[i - 1]
    IN  F[Len(vs)]

\* The targets of a mousedown inside a note element: the three buttons, the
\* content area, and the rest of the element.
Targets == {"body", "delete", "quote", "image", "content"}

\* The targets at which a drag gesture begins: a press there is followed by
\* the moves of that gesture until the button is released.
GestureTargets == {"body", "image"}

\* The history of the gesture after a mousemove at (cx, cy).
Followed(vs, cx, cy) ==
    [i \in 1..Len(vs) |->
        IF vs[i].press # Null /\ vs[i].press[1].target \in GestureTargets
        THEN [vs[i] EXCEPT !.press = Some([@[1] EXCEPT !.last = Some(<<cx, cy>>)])]
        ELSE vs[i]]

\* Where in the element a press lands, from its top-left corner.
PressOffsets == {<<0, 0>>, <<150, 30>>}

\* Pointer coordinates in the viewport: left of and above the board, inside
\* it, and far right of and below it.
PointerPoints == {<<-40, -40>>, <<400, 300>>, <<2000, 2000>>}

\* mousedown on element i, lines 185-206
MouseDown(i, target, d) ==
    /\ pointer = "up"
    /\ views[i].attached
    /\ op' = [name |-> "mousedown", target |-> target]
    /\ pointer' = "down"
    /\ LET rect == noteRect(heap, views[i])
           clientX == rect.left + d[1]
           clientY == rect.top + d[2]
           pressed == [views EXCEPT ![i].press =
                          Some([target |-> target, grab |-> d,
                                start |-> <<heap[views[i].note].x, heap[views[i].note].y>>,
                                last |-> Null])]
       IN  views' =
             IF target \in {"delete", "quote", "content"}
             THEN pressed
             ELSE [pressed EXCEPT ![i] =
                      [@ EXCEPT !.isDragging = TRUE,
                                !.dragOffsetX = Some(clientX - rect.left),
                                !.dragOffsetY = Some(clientY - rect.top)]]
    /\ ret' = Null
    /\ UNCHANGED <<heap, notes, clock, lastAdd, layout, moved, deleted, fetches>>

\* mousedown outside every note element: no listener of a note runs
MouseDownElsewhere ==
    /\ pointer = "up"
    /\ op' = [name |-> "mousedown", target |-> "elsewhere"]
    /\ pointer' = "down"
    /\ ret' = Null
    /\ UNCHANGED <<heap, notes, clock, lastAdd, views, layout, moved, deleted, fetches>>

\* mousemove on the document at (cx, cy), lines 209-226
MouseMove(cx, cy) ==
    /\ op' = [name |-> "mousemove"]
    /\ heap' = MoveAll(heap, views, cx, cy)
    /\ moved' = moved \cup {views[i].note : i \in {j \in 1..Len(views) : views[j].isDragging}}
    /\ views' = Followed(views, cx, cy)
    /\ ret' = Null
    /\ UNCHANGED <<notes, clock, lastAdd, layout, pointer, deleted, fetches>>

\* A mouseup that only the element under the pointer hears: no listener of
\* a note runs when the button is released away from it.
MouseUpUnheard ==
    /\ pointer = "down"
    /\ op' = [name |-> "mouseup"]
    /\ pointer' = "up"
    /\ views' = [i \in 1..Len(views) |-> [views[i] EXCEPT !.press = Null]]
    /\ ret' = Null
    /\ UNCHANGED <<heap, notes, clock, lastAdd, layout, moved, deleted, fetches>>

\* mouseup on the document, lines 229-234
MouseUp ==
    /\ pointer = "down"
    /\ op' = [name |-> "mouseup"]
    /\ pointer' = "up"
    /\ LET vs == [i \in 1..Len(views) |->
                    [views[i] EXCEPT !.isDragging = FALSE, !.press = Null]]
       IN  /\ views' = Compact(vs)
           /\ heap' = CompactHeap(heap, vs)
    /\ ret' = Null
    /\ UNCHANGED <<notes, clock, lastAdd, layout, moved, deleted, fetches>>

----------------------------------------------------------------------------
(* ui.js: sortAndRenderNotes.                                               *)

\* new Date(string).getTime() for the strings of the model: the instant in
\* ms, or NaN for what Date cannot parse.  A date-only form is UTC midnight.
DateParse(s) ==
    CASE s = "1970-01-01" -> Some(0)
      [] s = "1969-12-31T23:59:59.999Z" -> Some(-1)
      [] s = "1970-01-01T00:00:01.000Z" -> Some(1000)
      [] \E ms \in 0..9 : toISOString(ms) = s ->
            Some(CHOOSE ms \in 0..9 : toISOString(ms) = s)
      [] OTHER -> Null

\* new Date(timestamp || 0).getTime()
getTime(timestamp) == IF timestamp = "" THEN Some(0) ELSE DateParse(timestamp)

\* A comparator that never answers 0: t1 <= t2 ? -1 : 1 (and the reverse).
CompareNoTies(h, a, b, ascending) ==
    LET t1 == getTime(h[a].timestamp)
        t2 == getTime(h[b].timestamp)
    IN  IF t1 = Null \/ t2 = Null THEN 0
        ELSE IF ascending THEN (IF t1[1] <= t2[1] THEN -1 ELSE 1)
             ELSE (IF t2[1] <= t1[1] THEN -1 ELSE 1)

\* The comparator of lines 49-53 as Array.prototype.sort uses it: t1 - t2 or
\* t2 - t1, which is NaN when either time is NaN, and sort takes NaN for +0.
Compare(h, a, b, ascending) ==
    LET t1 == getTime(h[a].timestamp)
        t2 == getTime(h[b].timestamp)
    IN  IF t1 = Null \/ t2 = Null THEN 0
        ELSE IF ascending THEN t1[1] - t2[1] ELSE t2[1] - t1[1]

(* Array.prototype.sort.  For a consistent comparator the result is the     *)
(* stable sorted order.  This comparator is not consistent once a time is   *)
(* NaN, and the order is then the engine's: the model runs V8's sort for    *)
(* arrays shorter than 64, which finds the run the array starts with        *)
(* (reversing it when strictly descending) and inserts the remaining        *)
(* elements by binary search.  Arrays are 1-based here.                     *)

\* CountAndMakeRun: the last index of the run that starts at index 1
RECURSIVE RunEnd(_, _, _, _, _)
RunEnd(h, arr, k, descending, ascending) ==
    IF k > Len(arr) THEN Len(arr)
    ELSE LET order == Compare(h, arr[k], arr[k - 1], ascending)
         IN  IF (descending /\ order >= 0) \/ (~descending /\ order < 0)
             THEN k - 1
             ELSE RunEnd(h, arr, k + 1, descending, ascending)

Reverse(arr) == [i \in 1..Len(arr) |-> arr[Len(arr) + 1 - i]]

\* The binary search of BinaryInsertionSort: how many of arr[1..start-1]
\* stay left of pivot; left and right count from 0.
RECURSIVE InsertionPoint(_, _, _, _, _, _)
InsertionPoint(h, arr, pivot, left, right, ascending) ==
    IF left >= right THEN left
    ELSE LET mid == left + ((right - left) \div 2)
         IN  IF Compare(h, pivot, arr[mid + 1], ascending) < 0
             THEN InsertionPoint(h, arr, pivot, left, mid, ascending)
             ELSE InsertionPoint(h, arr, pivot, mid + 1, right, ascending)

\* BinaryInsertionSort from index start on
RECURSIVE BinaryInsertionSort(_, _, _, _)
BinaryInsertionSort(h, arr, start, ascending) ==
    IF start > Len(arr) THEN arr
    ELSE LET left == InsertionPoint(h, arr, arr[start], 0, start - 1, ascending)
             next == SubSeq(arr, 1, left) \o <<arr[start]>>
                        \o SubSeq(arr, left + 1, start - 1)
                        \o SubSeq(arr, start + 1, Len(arr))
         IN  BinaryInsertionSort(h, next, start + 1, ascending)

\* notes.sort((a, b) => ...)
\* A sort whose result is discarded: the array stays as getAllNotes gave it.
ArraySortDiscarded(h, arr, ascending) == arr

ArraySort(h, arr, ascending) ==
    IF Len(arr) < 2 THEN arr
    ELSE LET descending == Compare(h, arr[2], arr[1], ascending) < 0
             run == RunEnd(h, arr, 3, descending, ascending)
             made == IF descending
                     THEN Reverse(SubSeq(arr, 1, run)) \o SubSeq(arr, run + 1, Len(arr))
                     ELSE arr
         IN  BinaryInsertionSort(h, made, run + 1, ascending)

startX == 20
startY == 20
gapX == 20
noteWidth == 200

\* The row without the gap between the notes.
RowPositionNoGap(idx) == <<startX + idx * noteWidth, startY>>

\* The position of the note at index idx (from 0) of the sorted array:
\* (startX + idx * (noteWidth + gapX), startY)
RowPosition(idx) == <<startX + idx * (noteWidth + gapX), startY>>

IndexOf(arr, r) == CHOOSE i \in 1..Len(arr) : arr[i] = r

Range(arr) == {arr[i] : i \in 1..Len(arr)}

\* The positions of the manager's notes, in getAllNotes() order.
PositionsOf(h, m) == [i \in 1..Len(m) |-> <<h[m[i].val].x, h[m[i].val].y>>]

\* sortAndRenderNotes(noteManager, ascending), lines 46-76
SortAndRender(ascending) ==
    LET sorted == ArraySort(heap, getAllNotes, ascending)
        \* noteBoard.innerHTML = ''
        \* (an element taken out of the document loses its running animation)
        cleared == [i \in 1..Len(views) |->
                      [views[i] EXCEPT !.attached = FALSE, !.fading = FALSE]]
        \* updatePosition, createElement, setupNoteEventListeners, appendChild
        placed == [r \in 1..Len(heap) |->
                     IF r \in Range(sorted)
                     THEN LET idx == IndexOf(sorted, r) - 1
                              p == RowPosition(idx)
                          IN  [updatePosition(heap[r], p[1], p[2])
                                  EXCEPT !.element = Some(Len(cleared) + idx + 1)]
                     ELSE heap[r]]
        rendered == cleared \o [k \in 1..Len(sorted) |-> NewView(sorted[k])]
    IN  /\ op' = [name |-> "sort", ascending |-> ascending,
                  repeat |-> (op.name = "sort" /\ op.ascending),
                  before |-> [order |-> getAllNotes,
                              positions |-> PositionsOf(heap, notes)]]
        \* noteManager.notes.clear(); notes.forEach(note => addNote(note))
        /\ notes' = AddAll(<< >>, sorted)
        /\ heap' = CompactHeap(placed, rendered)
        /\ views' = Compact(rendered)
        /\ moved' = moved \ Range(sorted)
        /\ ret' = Null
        /\ UNCHANGED <<clock, lastAdd, layout, pointer, deleted, fetches>>

----------------------------------------------------------------------------
(* notes.js: addRandomQuote.  The call awaits twice, for fetch() and for    *)
(* response.json(), and every other event of the page may run in between.   *)
(* A call in flight is [note, stage, edit, began, removed]: stage is         *)
(* "fetch" or "json"; edit, began and removed are history: the text the     *)
(* user typed last into that note since the call began (null when none),    *)
(* the content the note had when the call began, and whether a completed    *)
(* delete took the note out of the manager since the call began.            *)

NoFetches == [began |-> 0, calls |-> << >>]

\* U+2014 EM DASH, written in ASCII.
EmDash == "--"

\* What response.json() may make of the body: text that is not JSON, the
\* JSON value null, a JSON object without the two properties, and an object
\* with both.
Payloads ==
    { [kind |-> "invalid"],
      [kind |-> "null"],
      [kind |-> "object", has |-> {}],
      [kind |-> "object", has |-> {"content", "author"},
       content |-> "Stay focused", author |-> "Anon"] }

\* ${data.content} and ${data.author}: undefined prints as "undefined"
Property(data, f) == IF f \in data.has THEN data[f] ELSE "undefined"

\* `"${data.content}" — ${data.author}`
QuoteOf(data) ==
    "\"" \o Property(data, "content") \o "\" " \o EmDash \o " "
        \o Property(data, "author")

\* The new content with one line break between the content and the quote.
AppendedOneBreak(content, quote) ==
    IF content # "" THEN content \o "\n" \o quote ELSE quote

\* this.content ? `${this.content}\n\n${quote}` : quote
Appended(content, quote) ==
    IF content # "" THEN content \o "\n\n" \o quote ELSE quote

\* A lookup of the content element through the document, which finds nothing
\* once the note element is out of it.
contentElementInDocument(n) ==
    /\ n.element # Null
    /\ n.element[1] # 0
    /\ views[n.element[1]].attached

\* this.element.querySelector('.note-content') in updateContent, line 121:
\* the element's own subtree is searched, in or out of the document, and the
\* template gives every note element its content child
contentElementFound(n) == n.element # Null

\* The content read before the awaits, when the call began.
ContentReadAtStart(n, call) == call.began

\* this.content at line 176, read after both awaits
ContentRead(n, call) == n.content

DropCall(k) ==
    [fetches EXCEPT !.calls = SubSeq(@, 1, k - 1) \o SubSeq(@, k + 1, Len(@))]

\* The quote button's click: note.addRandomQuote() runs to its first await
StartQuote(r) ==
    /\ fetches.began < MaxQuotes
    /\ op' = [name |-> "addRandomQuote", note |-> r]
    /\ fetches' = [began |-> fetches.began + 1,
                   calls |-> Append(fetches.calls,
                                    [note |-> r, stage |-> "fetch", edit |-> Null,
                                     began |-> heap[r].content,
                                     removed |-> FALSE])]
    /\ ret' = Null
    /\ UNCHANGED <<heap, notes, clock, lastAdd, uiVars>>

\* How call k ended: op tells the note, what came back from the network,
\* the content just before the call resumed, and the edit made in flight;
\* ret is the promise's outcome.
Ended(k, response, outcome) ==
    /\ op' = [name |-> "quoteDone", note |-> fetches.calls[k].note,
              response |-> response,
              contentBefore |-> heap[fetches.calls[k].note].content,
              edit |-> fetches.calls[k].edit,
              removed |-> fetches.calls[k].removed]
    /\ ret' = outcome
    /\ fetches' = DropCall(k)

Rejected == [outcome |-> "rejected"]

Resolved(value) == [outcome |-> "resolved", value |-> value]

\* fetch() rejects (the network failed): the catch block rejects the call
FetchFails(k) ==
    /\ fetches.calls[k].stage = "fetch"
    /\ Ended(k, "network error", Rejected)
    /\ UNCHANGED <<heap, notes, clock, lastAdd, uiVars>>

\* fetch() resolves with a response; !response.ok throws into the catch
\* block, otherwise the call awaits response.json()
ResponseArrives(k, ok) ==
    /\ fetches.calls[k].stage = "fetch"
    /\ IF ok
       THEN /\ op' = [name |-> "response"]
            /\ ret' = Null
            /\ fetches' = [fetches EXCEPT !.calls[k].stage = "json"]
       ELSE Ended(k, "not ok", Rejected)
    /\ UNCHANGED <<heap, notes, clock, lastAdd, uiVars>>

\* response.json() settles and the call runs to its end, lines 172-185
BodyRead(k, data) ==
    /\ fetches.calls[k].stage = "json"
    /\ LET r == fetches.calls[k].note
       IN  CASE data.kind = "invalid" ->
                   \* json() rejects
                   /\ Ended(k, "invalid JSON", Rejected)
                   /\ UNCHANGED heap
             [] data.kind = "null" ->
                   \* data.content throws a TypeError
                   /\ Ended(k, "null body", Rejected)
                   /\ UNCHANGED heap
             [] OTHER ->
                   \* updateContent assigns the content, then writes it to the
                   \* element; a TypeError there is caught and rejects the call
                   /\ Ended(k, IF data.has = {} THEN "no properties" ELSE "quote",
                            IF heap[r].element # Null /\ ~contentElementFound(heap[r])
                            THEN Rejected ELSE Resolved(QuoteOf(data)))
                   /\ heap' = [heap EXCEPT ![r] =
                                  updateContent(@, Appended(ContentRead(@, fetches.calls[k]),
                                                           QuoteOf(data)))]
    /\ UNCHANGED <<notes, clock, lastAdd, uiVars>>

\* The content element's input event: note.updateContent(textContent)
EditContent(i, text) ==
    /\ views[i].attached
    /\ op' = [name |-> "input", note |-> views[i].note]
    /\ heap' = [heap EXCEPT ![views[i].note] = updateContent(@, text)]
    /\ fetches' = [fetches EXCEPT !.calls =
                     [k \in 1..Len(@) |->
                        IF @[k].note = views[i].note
                        THEN [@[k] EXCEPT !.edit = Some(text)] ELSE @[k]]]
    /\ ret' = Null
    /\ UNCHANGED <<notes, clock, lastAdd, uiVars>>

\* No board: the notes have no elements.
NoBoard ==
    /\ views = << >>
    /\ layout \in {l \in Layouts : l.noteH <= l.boardH}
    /\ pointer = "up"
    /\ moved = {}
    /\ deleted = {}

----------------------------------------------------------------------------
(* The NoteManager under arbitrary calls of its interface: notes are       *)
(* constructed with or without a caller-supplied id, added and removed.    *)

\* Ids a caller supplies; two notes may be given the same one.
SuppliedIds == {"a"}

\* Every id a call may name: the supplied ones and those of the notes built.
KnownIds == SuppliedIds \cup {heap[r].id : r \in 1..Len(heap)}

\* The colour draw of a construction: none is made when a colour is supplied.
ColorDraws(o) ==
    IF Truthy(Opt(o, "color", Null)) THEN {0} ELSE 0..Len(NOTE_COLORS) - 1

\* The id draw of a construction: none is made when an id is supplied.
IdDraws(o) == IF Truthy(Opt(o, "id", Null)) THEN {0} ELSE RandChoices

\* The snapshots a caller constructs from: the colour is given, the id is
\* given or left to generateId.
ManagerOptions ==
    {[has |-> {"color"}, color |-> Some("note-blue")]}
        \cup {[has |-> {"id", "color"}, id |-> Some(i), color |-> Some("note-blue")]
                  : i \in SuppliedIds}

\* The history of one id after a call.
Recorded(h, id, v) == [i \in DOMAIN h \cup {id} |-> IF i = id THEN v ELSE h[i]]

InitManager ==
    /\ heap = << >>
    /\ notes = << >>
    /\ clock = 0
    /\ op = [name |-> "init"]
    /\ ret = Null
    /\ lastAdd = << >>
    /\ fetches = NoFetches
    /\ NoBoard

\* createNote(options)
CreateNote(o) ==
    /\ Len(heap) < MaxNotes
    /\ \E r \in IdDraws(o), k \in ColorDraws(o) :
           heap' = Append(heap, NoteConstructor(o, clock, r, k))
    /\ op' = [name |-> "createNote"]
    /\ ret' = Some(Len(heap) + 1)
    /\ UNCHANGED <<notes, clock, lastAdd, uiVars, fetches>>

\* noteManager.addNote(note)
AddNote(r) ==
    /\ notes' = addNote(notes, r)
    /\ lastAdd' = Recorded(lastAdd, heap[r].id, Some(r))
    /\ op' = [name |-> "addNote", replaced |-> getNote(heap[r].id)]
    /\ ret' = Null
    /\ UNCHANGED <<heap, clock, uiVars, fetches>>

\* noteManager.removeNote(id)
RemoveNote(id) ==
    /\ notes' = removeNote(notes, id)
    /\ ret' = removeNoteResult(notes, id)
    /\ lastAdd' = IF ret' THEN Recorded(lastAdd, id, Null) ELSE lastAdd
    /\ op' = [name |-> "removeNote", id |-> id]
    /\ UNCHANGED <<heap, clock, uiVars, fetches>>

\* Time passes.
Tick ==
    /\ clock < MaxClock
    /\ clock' = clock + 1
    /\ UNCHANGED <<heap, notes, op, ret, lastAdd, uiVars, fetches>>

NextManager ==
    \/ \E o \in ManagerOptions : CreateNote(o)
    \/ \E r \in 1..Len(heap) : AddNote(r)
    \/ \E id \in KnownIds : RemoveNote(id)

SpecManager == InitManager /\ [][NextManager]_vars

\* C2: getNote(id) is the note added last under id, and absent once a
\* removeNote(id) succeeded with no add of that id since.
GetReturnsLastAdded ==
    \A id \in KnownIds :
        getNote(id) = IF id \in DOMAIN lastAdd THEN lastAdd[id] ELSE Null

\* C2 witness: an add has just replaced a different note that was live under
\* the same id, while another id was added and then removed.
GetAfterOverwriteAndRemove ==
    /\ op.name = "addNote"
    /\ op.replaced # Null
    /\ \E id \in DOMAIN lastAdd :
          /\ lastAdd[id] # Null
          /\ lastAdd[id] # op.replaced
          /\ heap[lastAdd[id][1]].id = heap[op.replaced[1]].id
    /\ \E id \in DOMAIN lastAdd : lastAdd[id] = Null

\* C3: removeNote(id) for an id that is not in the manager returns false and
\* leaves the manager as it was: the same ids, each with the same note, in
\* the same order.
RemoveAbsentIsNoOp ==
    [][(op'.name = "removeNote" /\ ~MapHas(notes, op'.id))
          => (ret' = FALSE /\ notes' = notes)]_vars

\* C3 witness: removeNote has just answered false on a manager holding
\* two notes.
RemovedAbsentFromFullManager ==
    op.name = "removeNote" /\ ret = FALSE /\ Len(notes) >= 2

----------------------------------------------------------------------------
(* One Note under its own interface: it is constructed from a snapshot     *)
(* (complete, empty or with falsy fields), then moved, edited and given    *)
(* images, and at any time serialised and constructed again.               *)

\* What FileReader.readAsDataURL hands to setImage: a data URL.
DataUrls == {"data:image/png;base64,AAAA", "data:image/gif;base64,BBBB"}

Contents == {"", "todo"}

Positions == {<<0, 0>>, <<50, 20>>, <<-5, 700>>}

\* The snapshots a note is constructed from: nothing supplied, a complete
\* snapshot as toObject writes it, and one whose id, color, timestamp and
\* image are present but falsy.
NoteOptions ==
    { [has |-> {}],
      [has |-> OptionNames, id |-> Some("a"), content |-> "todo", x |-> 50,
       y |-> 20, color |-> Some("note-pink"),
       timestamp |-> Some("1970-01-01T00:00:01.000Z"),
       image |-> Some("data:image/png;base64,AAAA")],
      [has |-> OptionNames \ {"x"}, id |-> Some(""), content |-> "", y |-> 20,
       color |-> Null, timestamp |-> Some(""), image |-> Some("")] }

\* The timestamp draw of a construction happens when none is supplied.
InitNote ==
    /\ clock \in 0..MaxClock
    /\ \E o \in NoteOptions : \E r \in IdDraws(o), k \in ColorDraws(o) :
          heap = <<NoteConstructor(o, clock, r, k)>>
    /\ notes = << >>
    /\ op = [name |-> "createNote"]
    /\ ret = Some(1)
    /\ lastAdd = << >>
    /\ fetches = NoFetches
    /\ NoBoard

\* note.updatePosition(x, y)
UpdatePosition(r, x, y) ==
    /\ op' = [name |-> "updatePosition"]
    /\ heap' = [heap EXCEPT ![r] = updatePosition(@, x, y)]
    /\ ret' = Null
    /\ UNCHANGED <<notes, clock, lastAdd, uiVars, fetches>>

\* note.updateContent(content)
UpdateContent(r, text) ==
    /\ op' = [name |-> "updateContent"]
    /\ heap' = [heap EXCEPT ![r] = updateContent(@, text)]
    /\ ret' = Null
    /\ UNCHANGED <<notes, clock, lastAdd, uiVars, fetches>>

\* note.setImage(dataUrl)
SetImage(r, dataUrl) ==
    /\ op' = [name |-> "setImage"]
    /\ heap' = [heap EXCEPT ![r] = setImage(@, dataUrl)]
    /\ ret' = Null
    /\ UNCHANGED <<notes, clock, lastAdd, uiVars, fetches>>

\* createNote(note.toObject()): ret is the note object constructed
Recreate(r) ==
    /\ op' = [name |-> "recreate", from |-> r]
    /\ \E d \in RandChoices, k \in 0..Len(NOTE_COLORS) - 1 :
          ret' = NoteConstructor(toObject(heap[r]), clock, d, k)
    /\ UNCHANGED <<heap, notes, clock, lastAdd, uiVars, fetches>>

NextNote ==
    \/ \E r \in 1..Len(heap) : \E p \in Positions : UpdatePosition(r, p[1], p[2])
    \/ \E r \in 1..Len(heap) : \E t \in Contents : UpdateContent(r, t)
    \/ \E r \in 1..Len(heap) : \E u \in DataUrls : SetImage(r, u)
    \/ \E r \in 1..Len(heap) : Recreate(r)
    \/ Tick

SpecNote == InitNote /\ [][NextNote]_vars

\* The properties toObject writes.
SameSnapshotFields(a, b) ==
    /\ a.id = b.id
    /\ a.content = b.content
    /\ a.x = b.x /\ a.y = b.y
    /\ a.color = b.color
    /\ a.timestamp = b.timestamp
    /\ a.image = b.image

\* C7: createNote(note.toObject()) has the id, content, x, y, color, timestamp
\* and image of note, whatever construction and updates note went through.
RoundTripIdentical ==
    op.name = "recreate" => SameSnapshotFields(ret, heap[op.from])

\* C7 witness: a note constructed with generated id, colour and timestamp, then
\* moved, edited and given an image, was serialised and constructed again at a
\* later time than its own construction.
RoundTripAfterUpdates ==
    /\ op.name = "recreate"
    /\ heap[op.from].id \notin SuppliedIds
    /\ heap[op.from].timestamp # toISOString(clock)
    /\ heap[op.from].image # Null
    /\ heap[op.from].content # ""
    /\ heap[op.from].x # 0

----------------------------------------------------------------------------
(* createNote under any options object: every subset of the seven          *)
(* properties, the present ones with usable values (1) or, for id,         *)
(* content, color, timestamp and image, with the empty string (2).         *)

\* The v-th value of property f.
Supplied(f, v) ==
    CASE f = "id"        -> IF v = 1 THEN Some("a") ELSE Some("")
      [] f = "content"   -> IF v = 1 THEN "todo" ELSE ""
      [] f = "x"         -> 50
      [] f = "y"         -> 20
      [] f = "color"     -> IF v = 1 THEN Some("note-pink") ELSE Some("")
      [] f = "timestamp" -> IF v = 1 THEN Some("1970-01-01T00:00:01.000Z") ELSE Some("")
      [] f = "image"     -> IF v = 1 THEN Some("data:image/png;base64,AAAA") ELSE Some("")

\* The options objects with the properties S.
OptionsWith(S) ==
    { [f \in S \cup {"has"} |-> IF f = "has" THEN S ELSE Supplied(f, v)]
        : v \in {1, 2} }

CreateOptions == UNION {OptionsWith(S) : S \in SUBSET OptionNames}

InitCreate ==
    /\ heap = << >>
    /\ notes = << >>
    /\ clock = 0
    /\ op = [name |-> "init"]
    /\ ret = Null
    /\ lastAdd = << >>
    /\ fetches = NoFetches
    /\ NoBoard

\* createNote(options): ret is the note object constructed, op tells the
\* options and the time of the call
CreateFrom(o) ==
    /\ op' = [name |-> "createFrom", options |-> o, now |-> clock]
    /\ \E r \in IdDraws(o), k \in ColorDraws(o) :
          ret' = NoteConstructor(o, clock, r, k)
    /\ UNCHANGED <<heap, notes, clock, lastAdd, uiVars, fetches>>

NextCreate ==
    \/ \E o \in CreateOptions : CreateFrom(o)
    \/ Tick

SpecCreate == InitCreate /\ [][NextCreate]_vars

\* The four palette colours.
Palette == {NOTE_COLORS[i] : i \in 1..Len(NOTE_COLORS)}

\* The ids generateId can give at time now.
GeneratedIds(now) ==
    {"note_" \o ToString(now) \o "_" \o ToString(d) : d \in RandChoices}

\* C17 as stated: the note keeps the value of every supplied property and
\* has the default of every property that is not supplied.
CreateKeepsSupplied ==
    (op.name = "createFrom") =>
        LET o == op.options
        IN  /\ IF "id" \in o.has THEN Some(ret.id) = o.id
                ELSE ret.id \in GeneratedIds(op.now)
            /\ ret.content = (IF "content" \in o.has THEN o.content ELSE "")
            /\ ret.x = (IF "x" \in o.has THEN o.x ELSE 0)
            /\ ret.y = (IF "y" \in o.has THEN o.y ELSE 0)
            /\ IF "color" \in o.has THEN Some(ret.color) = o.color
                ELSE ret.color \in Palette
            /\ IF "timestamp" \in o.has THEN Some(ret.timestamp) = o.timestamp
                ELSE ret.timestamp = toISOString(op.now)
            /\ IF "image" \in o.has THEN ret.image = o.image
                ELSE ret.image = Null

\* A property that is supplied with a value other than the empty string.
Given(o, f) == f \in o.has /\ o[f] # Null /\ o[f] # Some("")

\* C17 as amended: the note keeps every supplied content, x and y and every
\* supplied id, color, timestamp and image that is not the empty string; a
\* property that is not supplied, and an id, color, timestamp or image
\* supplied as the empty string, has its default: an id generated at the
\* time of the call, "", 0, 0, a palette colour, the time of the call, null.
CreateKeepsUsable ==
    (op.name = "createFrom") =>
        LET o == op.options
        IN  /\ IF Given(o, "id") THEN Some(ret.id) = o.id
                ELSE ret.id \in GeneratedIds(op.now)
            /\ ret.content = (IF "content" \in o.has THEN o.content ELSE "")
            /\ ret.x = (IF "x" \in o.has THEN o.x ELSE 0)
            /\ ret.y = (IF "y" \in o.has THEN o.y ELSE 0)
            /\ IF Given(o, "color") THEN Some(ret.color) = o.color
                ELSE ret.color \in Palette
            /\ IF Given(o, "timestamp") THEN Some(ret.timestamp) = o.timestamp
                ELSE ret.timestamp = toISOString(op.now)
            /\ IF Given(o, "image") THEN ret.image = o.image
                ELSE ret.image = Null

\* C17 witness: a snapshot that has only its content and its x was loaded
\* after time had passed: the note has them, a generated id, y = 0, a palette
\* colour other than the first, the time of the call and no image.
CreatedFromPartialSnapshot ==
    /\ op.name = "createFrom"
    /\ op.options.has = {"content", "x"}
    /\ op.now > 0
    /\ ret.content = "todo" /\ ret.x = 50 /\ ret.y = 0
    /\ ret.id = generateId(op.now, 999)
    /\ ret.color = "note-pink"
    /\ ret.timestamp = toISOString(op.now)
    /\ ret.image = Null

----------------------------------------------------------------------------
(* The board after start-up: the notes loaded from the store are           *)
(* constructed, added to the manager and rendered (renderAllNotes), each   *)
(* with its element and listeners.                                         *)

\* A stored snapshot as toObject wrote it.
Snapshot(id, content, pos, timestamp) ==
    [has |-> OptionNames, id |-> Some(id), content |-> content, x |-> pos[1],
     y |-> pos[2], color |-> Some("note-yellow"), timestamp |-> Some(timestamp),
     image |-> Null]

StoredId(i) == "note_" \o ToString(i) \o "_7"

\* The heap after loading and rendering the snapshots.
Loaded(snaps) ==
    [i \in 1..Len(snaps) |->
        [NoteConstructor(snaps[i], clock, 0, 0) EXCEPT !.element = Some(i)]]

\* A board holding the notes of snaps, all rendered, the mouse button up.
BoardLoaded(snaps) ==
    /\ heap = Loaded(snaps)
    /\ notes = AddAll(<< >>, [i \in 1..Len(snaps) |-> i])
    /\ views = [i \in 1..Len(snaps) |-> NewView(i)]
    /\ pointer = "up"
    /\ moved = {}
    /\ deleted = {}
    /\ op = [name |-> "renderAllNotes"]
    /\ ret = Null
    /\ lastAdd = << >>
    /\ fetches = NoFetches

----------------------------------------------------------------------------
(* Dragging: presses, moves and releases of the mouse on a rendered board. *)

\* Where the stored notes lie; createNewNote puts a note wherever the board
\* was double-clicked, so a note may start partly outside the board.
DragStarts == {<<0, 0>>, <<700, 450>>}

InitDrag ==
    /\ clock = 0
    /\ layout \in Layouts
    /\ \E n \in {1, 2} : \E ps \in [1..n -> DragStarts] :
          BoardLoaded([i \in 1..n |-> Snapshot(StoredId(i), "", ps[i], toISOString(0))])

NextDrag ==
    \/ \E i \in 1..Len(views), t \in Targets, d \in PressOffsets : MouseDown(i, t, d)
    \/ MouseDownElsewhere
    \/ \E p \in PointerPoints : MouseMove(p[1], p[2])
    \/ MouseUp

SpecDrag == InitDrag /\ [][NextDrag]_vars

\* C1 as stated: every position a mousemove wrote has x in
\* [0, boardWidth - noteWidth] and y in [0, boardHeight - noteHeight].
DragWithinBoard ==
    \A r \in moved :
        /\ 0 <= heap[r].x /\ heap[r].x <= layout.boardW - layout.noteW
        /\ 0 <= heap[r].y /\ heap[r].y <= layout.boardH - layout.noteH

\* C1 as amended: every position a mousemove wrote has x in
\* [0, max(0, boardWidth - noteWidth)] and y in
\* [0, max(0, boardHeight - noteHeight)]: a note larger than the board on an
\* axis is put at 0 on that axis.
DragClamped ==
    \A r \in moved :
        /\ 0 <= heap[r].x /\ heap[r].x <= Max(0, layout.boardW - layout.noteW)
        /\ 0 <= heap[r].y /\ heap[r].y <= Max(0, layout.boardH - layout.noteH)

\* C1 witness: a mousemove far outside the board has just put a note that
\* fits the board at the board's far corner, and before that a note was
\* dragged to the origin.
DraggedToFarCorner ==
    /\ op.name = "mousemove"
    /\ layout.noteH <= layout.boardH
    /\ \E r \in moved :
          /\ heap[r].x = layout.boardW - layout.noteW
          /\ heap[r].y = layout.boardH - layout.noteH
    /\ \E r \in moved : heap[r].x = 0 /\ heap[r].y = 0

\* The position of a note.
PositionOf(h, r) == <<h[r].x, h[r].y>>

\* C11 as stated: a note is Dragging only after a press on the rest of its
\* body: a press on its delete, quote or image button or on its content area
\* never makes it Dragging.
DragStartsOnBodyOnly ==
    \A i \in 1..Len(views) :
        views[i].isDragging =>
            (views[i].press # Null /\ views[i].press[1].target = "body")

\* C12: whenever the button is up (a release was delivered, wherever the
\* pointer was) every note is Idle; the release changes no note's position;
\* and a mousemove changes the position of a note only while the button is
\* held after a press on that note's element that began a drag gesture.
DragEnds ==
    /\ [](pointer = "up" => \A i \in 1..Len(views) : ~views[i].isDragging)
    /\ [][(op'.name = "mouseup") =>
              \A r \in 1..Len(heap) : PositionOf(heap', r) = PositionOf(heap, r)]_vars
    /\ [][(op'.name = "mousemove") =>
              \A i \in 1..Len(views) :
                  (views[i].press = Null \/ views[i].press[1].target \notin GestureTargets)
                      => PositionOf(heap', views[i].note) = PositionOf(heap, views[i].note)]_vars

\* C12 witness: a note was dragged away from where it lay and released with
\* the pointer far outside the board, and a mousemove after the release has
\* left it where the drag put it.
MovedAfterRelease ==
    /\ op.name = "mousemove"
    /\ pointer = "up"
    /\ \E r \in moved : PositionOf(heap, r) = <<600, 300>>

\* Where a gesture that grabbed the note at grab and was last moved to
\* pointer pt settles the note; the note has its laid-out size.
SettledAt(grab, pt) ==
    << Max(0, Min(pt[1] - layout.left - grab[1], layout.boardW - layout.noteW)),
       Max(0, Min(pt[2] - layout.top - grab[2], layout.boardH - layout.noteH)) >>

\* C16: when the button is released after a press on a note's body and the
\* moves m1..mk, the note's position is the clamped candidate of mk with the
\* offset of the press; with no move it is the position at the press.
DragSettlesAtLastMove ==
    [][(op'.name = "mouseup") =>
          \A i \in 1..Len(views) :
              (views[i].press # Null /\ views[i].press[1].target = "body") =>
                  PositionOf(heap', views[i].note) =
                      IF views[i].press[1].last = Null
                      THEN views[i].press[1].start
                      ELSE SettledAt(views[i].press[1].grab, views[i].press[1].last[1])]_vars

\* C16 witness: a note grabbed away from its corner was moved, last to a
\* pointer inside the board, and released: it lies where that last move put
\* it, 150 left of and 30 above the pointer.
ReleasedAfterMoves ==
    /\ op.name = "mouseup"
    /\ layout.noteH <= layout.boardH
    /\ \E r \in moved :
          PositionOf(heap, r) = <<400 - layout.left - 150, 300 - layout.top - 30>>

----------------------------------------------------------------------------
(* Sorting: a rendered board whose notes carry any timestamps, in any      *)
(* manager order and at any positions, is sorted either way, repeatedly.   *)

\* Timestamps of stored notes: two instants after the epoch, the epoch as a
\* date-only string, an instant before the epoch, and text that is no date.
TimestampSamples ==
    { toISOString(1), toISOString(2), "1970-01-01",
      "1969-12-31T23:59:59.999Z", "not a date" }

\* Where the notes lie before the sort.
SortStarts == {<<300, 40>>, <<20, 20>>}

InitSort ==
    /\ clock = MaxClock
    /\ layout \in {l \in Layouts : l.noteH <= l.boardH}
    /\ \E n \in 0..MaxNotes :
          \E ts \in [1..n -> TimestampSamples], ps \in [1..n -> SortStarts] :
             BoardLoaded([i \in 1..n |-> Snapshot(StoredId(i), "", ps[i], ts[i])])

NextSort == \E ascending \in BOOLEAN : SortAndRender(ascending)

SpecSort == InitSort /\ [][NextSort]_vars

\* The instant of a note of the manager, or NaN.
TimeOf(r) == getTime(heap[r].timestamp)

\* Every note of the manager has a timestamp that is a point in time, and no
\* two are the same point.
DistinctTimes ==
    /\ \A i \in 1..Len(notes) : TimeOf(notes[i].val) # Null
    /\ \A i, j \in 1..Len(notes) :
          i # j => TimeOf(notes[i].val) # TimeOf(notes[j].val)

\* How many notes of the manager come before r in the order asked for.
Rank(r, ascending) ==
    Cardinality({i \in 1..Len(notes) :
        IF ascending THEN TimeOf(notes[i].val)[1] < TimeOf(r)[1]
        ELSE TimeOf(notes[i].val)[1] > TimeOf(r)[1]})

\* C4: after a sort of notes with pairwise distinct points in time, the note
\* with the i-th smallest (ascending) or i-th largest (descending) time,
\* i = 0, 1, ..., is at x = 20 + 220 * i, y = 20.
SortedRowLayout ==
    (op.name = "sort" /\ DistinctTimes) =>
        \A i \in 1..Len(notes) :
            /\ heap[notes[i].val].x = 20 + 220 * Rank(notes[i].val, op.ascending)
            /\ heap[notes[i].val].y = 20

\* C4 witness: three notes with distinct times that were neither in time
\* order nor in the row have just been sorted descending.
SortedThreeDescending ==
    /\ op.name = "sort" /\ ~op.ascending /\ DistinctTimes
    /\ Len(notes) = 3
    /\ op.before.order # getAllNotes
    /\ op.before.order # Reverse(getAllNotes)
    /\ op.before.positions # PositionsOf(heap, notes)

\* C5: an ascending sort that follows an ascending sort at once leaves the
\* manager's order and every position as the first sort left them.
SortIdempotent ==
    (op.name = "sort" /\ op.ascending /\ op.repeat) =>
        /\ getAllNotes = op.before.order
        /\ PositionsOf(heap, notes) = op.before.positions

\* C5 witness: the second of two ascending sorts has run on three notes, two
\* with the same time and one whose timestamp is no date.
SortedTwiceWithTies ==
    /\ op.name = "sort" /\ op.ascending /\ op.repeat
    /\ Len(notes) = 3
    /\ \E i, j \in 1..3 : i # j /\ TimeOf(notes[i].val) = TimeOf(notes[j].val)
                              /\ TimeOf(notes[i].val) # Null
    /\ \E i \in 1..3 : TimeOf(notes[i].val) = Null

\* C6 as stated: in an ascending sort a note whose timestamp cannot be parsed
\* is ordered as if its time were the epoch: it comes before every note whose
\* time is later than the epoch.
UnparsableSortsAsEpoch ==
    (op.name = "sort" /\ op.ascending) =>
        \A i, j \in 1..Len(notes) :
            (/\ TimeOf(notes[i].val) = Null
             /\ TimeOf(notes[j].val) # Null
             /\ TimeOf(notes[j].val)[1] > 0) => i < j

\* Every note of the manager has a timestamp that is a point in time.
AllTimesParse == \A i \in 1..Len(notes) : TimeOf(notes[i].val) # Null

\* C19: a sort leaves the manager with the same notes (none lost, added or
\* held twice), each under its own id and with its id, content, color,
\* timestamp and image unchanged; when every timestamp is a point in time,
\* getAllNotes() then enumerates them by time in the direction asked for.
SortKeepsNotes ==
    [][(op'.name = "sort") =>
          /\ Range(getAllNotes') = Range(getAllNotes)
          /\ Len(notes') = Len(notes)
          /\ \A i \in 1..Len(notes') : notes'[i].key = heap'[notes'[i].val].id
          /\ Len(heap') = Len(heap)
          /\ \A r \in 1..Len(heap) :
                /\ heap'[r].id = heap[r].id
                /\ heap'[r].content = heap[r].content
                /\ heap'[r].color = heap[r].color
                /\ heap'[r].timestamp = heap[r].timestamp
                /\ heap'[r].image = heap[r].image
          /\ AllTimesParse =>
                \A i, j \in 1..Len(notes') :
                    i < j => IF op'.ascending
                             THEN TimeOf(notes'[i].val)[1] <= TimeOf(notes'[j].val)[1]
                             ELSE TimeOf(notes'[i].val)[1] >= TimeOf(notes'[j].val)[1]]_vars

\* C19 witness: three notes whose timestamps are points in time, not all the
\* same, have just been sorted ascending into another enumeration order.
SortedIntoNewOrder ==
    /\ op.name = "sort" /\ op.ascending /\ AllTimesParse
    /\ Len(notes) = 3
    /\ op.before.order # getAllNotes
    /\ Range(op.before.order) = Range(getAllNotes)

----------------------------------------------------------------------------
(* The quote fetch: one rendered note whose quote button is clicked while  *)
(* the user edits its text; each call fails or succeeds.                   *)

\* What the user leaves in the content element.
EditTexts == {"", "buy milk"}

InitQuote ==
    /\ clock = 0
    /\ layout \in {l \in Layouts : l.noteH <= l.boardH}
    /\ fetches = NoFetches
    /\ \E c \in Contents :
          BoardLoaded(<<Snapshot(StoredId(1), c, <<50, 50>>, toISOString(0))>>)

NextQuote ==
    \/ \E r \in 1..Len(heap) : StartQuote(r)
    \/ \E k \in 1..Len(fetches.calls) : FetchFails(k)
    \/ \E k \in 1..Len(fetches.calls), ok \in BOOLEAN : ResponseArrives(k, ok)
    \/ \E k \in 1..Len(fetches.calls), data \in Payloads : BodyRead(k, data)
    \/ \E i \in 1..Len(views), text \in EditTexts : EditContent(i, text)

SpecQuote == InitQuote /\ [][NextQuote]_vars

IsPrefix(e, str) == Len(e) <= Len(str) /\ SubSeq(str, 1, Len(e)) = e

IsSuffix(e, str) ==
    Len(e) <= Len(str) /\ SubSeq(str, Len(str) - Len(e) + 1, Len(str)) = e

Contains(e, str) ==
    \E i \in 0..(Len(str) - Len(e)) : SubSeq(str, i + 1, i + Len(e)) = e

\* C8 as stated: when the retrieval fails (the network fails, the response
\* is not a success, or the payload is malformed: not JSON, null, or without
\* the quote's properties), the call is rejected and the content is what it
\* was just before.
FailureLeavesContent ==
    (op.name = "quoteDone" /\ op.response # "quote") =>
        /\ ret.outcome = "rejected"
        /\ heap[op.note].content = op.contentBefore

\* C9: when the call succeeds with text Q, it returns Q and the content is Q
\* if it was empty, and otherwise what it was, a blank line, then Q; for the
\* payload "Stay focused" by Anon, Q is "Stay focused" -- Anon.
QuoteAppended ==
    (op.name = "quoteDone" /\ ret.outcome = "resolved") =>
        /\ op.response = "quote" => ret.value = "\"Stay focused\" " \o EmDash \o " Anon"
        /\ heap[op.note].content =
              IF op.contentBefore = "" THEN ret.value
              ELSE op.contentBefore \o "\n\n" \o ret.value

\* C9 witness: a call has succeeded on a note that held "todo", and the
\* content is "todo", a blank line and the quote.
QuoteAppendedToTodo ==
    /\ op.name = "quoteDone" /\ ret.outcome = "resolved"
    /\ op.contentBefore = "todo"
    /\ heap[op.note].content = "todo\n\n\"Stay focused\" " \o EmDash \o " Anon"

\* C10 as stated, for the interleaving it names (the call begins, the user
\* leaves the non-empty text E, the call succeeds): the content no longer
\* contains E.
EditOverwritten ==
    (op.name = "quoteDone" /\ ret.outcome = "resolved" /\ op.response = "quote"
        /\ op.edit # Null /\ op.edit # Some("")) =>
        ~Contains(op.edit[1], heap[op.note].content)

\* C10 as amended: a call that succeeds after the user left the text E in
\* flight does not overwrite it: the content begins with E and ends with the
\* retrieved text.
EditSurvivesFetch ==
    (op.name = "quoteDone" /\ ret.outcome = "resolved" /\ op.edit # Null) =>
        /\ IsPrefix(op.edit[1], heap[op.note].content)
        /\ IsSuffix(ret.value, heap[op.note].content)
        /\ Contains(op.edit[1], heap[op.note].content)

\* C10 witness: the note held "todo" when the call began, the user replaced
\* it by "buy milk" while the call was awaiting the body, and the call has
\* succeeded.
EditedDuringFetch ==
    /\ op.name = "quoteDone" /\ ret.outcome = "resolved"
    /\ op.edit = Some("buy milk")
    /\ heap[op.note].content = "buy milk\n\n\"Stay focused\" " \o EmDash \o " Anon"

----------------------------------------------------------------------------
(* ui.js: deleteNote, the quote and image buttons, the autosave timer.      *)

\* click on the delete button of element i (by mouse or by keyboard):
\* deleteNote, lines 243-255, up to the registration of the listener
ClickDelete(i) ==
    /\ views[i].attached
    /\ op' = [name |-> "deleteNote", note |-> views[i].note]
    /\ views' = [views EXCEPT ![i].fading = TRUE]
    /\ ret' = Null
    /\ UNCHANGED <<heap, notes, clock, lastAdd, layout, pointer, moved, deleted,
                   fetches>>

\* The calls in flight after note r left the manager.
MarkRemoved(calls, r) ==
    [k \in 1..Len(calls) |->
        IF calls[k].note = r THEN [calls[k] EXCEPT !.removed = TRUE] ELSE calls[k]]

\* animationend on element i, lines 248-254: the fade-out has run to its end
\* on an element that is in the document
AnimationEnd(i) ==
    /\ views[i].attached
    /\ views[i].fading
    /\ LET r == views[i].note
           gone == getNote(heap[r].id) = Some(r)
           vs == [views EXCEPT ![i].attached = FALSE, ![i].fading = FALSE]
       IN  \* the listener drops what removeNote answers
           /\ op' = [name |-> "animationend", note |-> r]
           /\ notes' = removeNote(notes, heap[r].id)
           /\ ret' = Null
           /\ deleted' = IF gone THEN deleted \cup {r} ELSE deleted
           /\ fetches' = IF gone
                         THEN [fetches EXCEPT !.calls = MarkRemoved(@, r)]
                         ELSE fetches
           /\ views' = Compact(vs)
           /\ heap' = CompactHeap(heap, vs)
    /\ UNCHANGED <<clock, lastAdd, layout, pointer, moved>>

\* click on the quote button of element i, lines 145-148
ClickQuote(i) == views[i].attached /\ StartQuote(views[i].note)

\* The file chosen after a click on the image button of element i is read:
\* reader.onload, lines 173-175
PickImage(i, dataUrl) == views[i].attached /\ SetImage(views[i].note, dataUrl)

\* The autosave timer fires, lines 272-275: op tells what saveNotes is
\* handed; the callback returns nothing
AutoSave ==
    /\ op' = [name |-> "autosave", saved |-> toJSON]
    /\ ret' = Null
    /\ UNCHANGED <<heap, notes, clock, lastAdd, uiVars, fetches>>

\* The inputs of the user on the boards below: the text typed, where a note
\* is grabbed, where the pointer is moved to, the image chosen.
PageTexts == {"buy milk"}

PageGrab == <<150, 30>>

PagePoint == <<2000, 2000>>

PageUrls == {"data:image/png;base64,AAAA"}

\* The body that answers a request: a quote.
QuotePayloads == {p \in Payloads : p.kind = "object" /\ p.has # {}}

----------------------------------------------------------------------------
(* The board with two notes: they are dragged, edited, augmented and        *)
(* deleted while the autosave timer ticks and the fetches complete.         *)

InitBoard ==
    /\ clock = 0
    /\ layout \in {l \in Layouts : l.noteH <= l.boardH}
    /\ BoardLoaded(<<Snapshot(StoredId(1), "todo", <<0, 0>>, toISOString(1)),
                     Snapshot(StoredId(2), "", <<300, 40>>, toISOString(0))>>)

NextBoard ==
    \/ \E i \in 1..Len(views) : MouseDown(i, "body", PageGrab)
    \/ MouseMove(PagePoint[1], PagePoint[2])
    \/ MouseUp
    \/ \E i \in 1..Len(views) : ClickQuote(i)
    \/ \E k \in 1..Len(fetches.calls) : FetchFails(k)
    \/ \E k \in 1..Len(fetches.calls), ok \in BOOLEAN : ResponseArrives(k, ok)
    \/ \E k \in 1..Len(fetches.calls), data \in Payloads : BodyRead(k, data)
    \/ \E i \in 1..Len(views) : ClickDelete(i)
    \/ \E i \in 1..Len(views) : AnimationEnd(i)
    \/ AutoSave

SpecBoard == InitBoard /\ [][NextBoard]_vars

\* The notes the manager holds.
InManager(r) == \E i \in 1..Len(notes) : notes[i].val = r

\* C14: when a call completes on a note that a delete took out of the manager
\* while the call was in flight, the manager is left as it is (the note is
\* not put back), no other note changes, and the call ends with the outcome
\* of the retrieval: resolved for a quote, rejected only when the retrieval
\* failed.
DetachedFetchCompletes ==
    [][(op'.name = "quoteDone" /\ op'.removed) =>
          /\ notes' = notes
          /\ ~InManager(op'.note)
          /\ Len(heap') = Len(heap)
          /\ \A r \in 1..Len(heap) : r # op'.note => heap'[r] = heap[r]
          /\ op'.response = "quote" => ret'.outcome = "resolved"
          /\ ret'.outcome = "rejected" =>
                op'.response \in {"network error", "not ok", "invalid JSON", "null body"}]_vars

\* C14 witness: the first note was deleted while its call awaited the
\* response, the call has then resolved with the quote, and the second note
\* is still the manager's only note.
FetchCompletedAfterDelete ==
    /\ op.name = "quoteDone" /\ op.removed /\ op.note = 1
    /\ ret.outcome = "resolved" /\ op.response = "quote"
    /\ getAllNotes = <<2>>
    /\ heap[1].content = "todo\n\n\"Stay focused\" " \o EmDash \o " Anon"

----------------------------------------------------------------------------
(* The page with one note under every operation: the note is dragged,       *)
(* edited, illustrated, augmented, sorted and deleted while the autosave    *)
(* timer ticks and the fetches complete.                                    *)

InitPage ==
    /\ clock = 0
    /\ layout \in {l \in Layouts : l.noteH <= l.boardH}
    /\ BoardLoaded(<<Snapshot(StoredId(1), "todo", <<0, 0>>, toISOString(0))>>)

NextPage ==
    \/ \E i \in 1..Len(views), t \in {"body", "delete"} : MouseDown(i, t, PageGrab)
    \/ MouseMove(PagePoint[1], PagePoint[2])
    \/ MouseUp
    \/ \E i \in 1..Len(views), text \in PageTexts : EditContent(i, text)
    \/ \E i \in 1..Len(views), u \in PageUrls : PickImage(i, u)
    \/ \E i \in 1..Len(views) : ClickQuote(i)
    \/ \E k \in 1..Len(fetches.calls) : FetchFails(k)
    \/ \E k \in 1..Len(fetches.calls), ok \in BOOLEAN : ResponseArrives(k, ok)
    \/ \E k \in 1..Len(fetches.calls), data \in QuotePayloads : BodyRead(k, data)
    \/ \E i \in 1..Len(views) : ClickDelete(i)
    \/ \E i \in 1..Len(views) : AnimationEnd(i)
    \/ \E ascending \in BOOLEAN : SortAndRender(ascending)
    \/ AutoSave

SpecPage == InitPage /\ [][NextPage]_vars

\* An animationend step as views tells it: a fading element of the document
\* has left it.  Every AnimationEnd(i) step is one, and on this page no other
\* step is (a sort renders the note again).
AnimationEndDelivered ==
    \E i \in 1..Len(views) :
        /\ views[i].attached
        /\ views[i].fading
        /\ views' = Compact([views EXCEPT ![i].attached = FALSE, ![i].fading = FALSE])

\* The page under fair delivery of the animationend event: a fade-out that
\* keeps running comes to its end.
SpecPageFair == SpecPage /\ WF_views(AnimationEndDelivered)

\* C13 as stated: once a completed delete has taken a note out of the
\* manager, no mousedown, mousemove, mouseup or input event changes that
\* note's position or content.
DestroyedNoteInert ==
    [][(op'.name \in {"mousedown", "mousemove", "mouseup", "input"}) =>
          \A r \in deleted :
              /\ PositionOf(heap', r) = PositionOf(heap, r)
              /\ heap'[r].content = heap[r].content]_vars

\* C18: every note has, in every state, the non-empty id and the timestamp
\* it was constructed with: no step changes the id or the timestamp of a
\* note, and the note loaded from the store has those of its snapshot.
IdentityImmutable ==
    /\ [](\A r \in 1..Len(heap) : heap[r].id # "")
    /\ [](heap[1].id = StoredId(1) /\ heap[1].timestamp = toISOString(0))
    /\ [][/\ Len(heap') >= Len(heap)
          /\ \A r \in 1..Len(heap) :
                /\ heap'[r].id = heap[r].id
                /\ heap'[r].timestamp = heap[r].timestamp]_vars

\* C18 witness: the note was edited, augmented with a quote, given an image,
\* put into the row by a sort and deleted.
DeletedAfterEveryOperation ==
    /\ op.name = "animationend" /\ op.note = 1
    /\ 1 \in deleted
    /\ heap[1].image # Null
    /\ heap[1].content = "buy milk\n\n\"Stay focused\" " \o EmDash \o " Anon"
    /\ PositionOf(heap, 1) = RowPosition(0)

\* C20 as stated: once a delete is requested for a note, the note is
\* eventually out of the manager, whatever else runs in between.
DeleteCompletes ==
    \A r \in {1} :
        (op.name = "deleteNote" /\ op.note = r) ~> ~InManager(r)

----------------------------------------------------------------------------
(* A sort during a drag: sortAndRenderNotes empties the board and renders   *)
(* every note again while the listeners of the discarded elements stay on   *)
(* the document with their isDragging as it was.  A sort button takes a     *)
(* click from the keyboard while the mouse button is held.                  *)

InitSortDrag ==
    /\ clock = 1
    /\ layout \in {l \in Layouts : l.noteW <= l.boardW /\ l.noteH <= l.boardH}
    /\ \E ps \in [1..2 -> DragStarts] :
          BoardLoaded(<<Snapshot(StoredId(1), "", ps[1], toISOString(1)),
                        Snapshot(StoredId(2), "", ps[2], toISOString(0))>>)

NextSortDrag ==
    \/ \E i \in 1..Len(views), d \in PressOffsets : MouseDown(i, "body", d)
    \/ \E p \in PointerPoints : MouseMove(p[1], p[2])
    \/ MouseUp
    \/ \E ascending \in BOOLEAN : SortAndRender(ascending)

SpecSortDrag == InitSortDrag /\ [][NextSortDrag]_vars

\* The listeners of an element that a sort discarded while it was dragged.
StaleDragging(vs) == {i \in 1..Len(vs) : vs[i].isDragging /\ ~vs[i].attached}

\* C21 as stated: after a sort during a drag, every position a later
\* mousemove writes to the dragged note has x in [0, boardWidth - noteWidth]
\* and y in [0, boardHeight - noteHeight], and once a mouseup was delivered
\* a mousemove changes no note's position.
SortedDragWithinBoard ==
    /\ [](op.name = "mousemove" =>
            \A i \in StaleDragging(views) :
                LET p == PositionOf(heap, views[i].note)
                IN  /\ 0 <= p[1] /\ p[1] <= layout.boardW - layout.noteW
                    /\ 0 <= p[2] /\ p[2] <= layout.boardH - layout.noteH)
    /\ [][(pointer = "up" /\ op'.name = "mousemove") =>
            \A r \in 1..Len(heap) : PositionOf(heap', r) = PositionOf(heap, r)]_vars

====
